---------------------------- MODULE Spec2Model ----------------------------
(***************************************************************************)
(* A model of pulseaudio_dlna/codecs.py: the codec descriptor classes,     *)
(* their comparison operators, the encoder resolver, MIME matching, the    *)
(* L16 MIME parser and the codec registry.                                 *)
(*                                                                         *)
(* Python text is a sequence of one-character strings, so that lower(),    *)
(* startswith(), re.match() and int() are computed on characters.  Python  *)
(* values are tagged records (PyNone, PyInt, PyStr, PyBool) so that        *)
(* truthiness and the Python 2 ordering of None against integers are       *)
(* explicit.                                                               *)
(***************************************************************************)
EXTENDS Integers, Sequences, FiniteSets, TLC

VARIABLES
    CODECS,     \* the module-level dict CODECS: IDENTIFIER -> class
    cls_ENABLED, \* the ENABLED class attribute, per class that owns one
    AVAILABLE,  \* the AVAILABLE flag of every encoder kind
    objs,       \* the descriptors that exist, by slot
    arg,        \* the MIME string the caller holds
    ret,        \* what the last call returned or raised
    assigned,   \* history: the value last assigned to enabled, per kind
    changes     \* number of state-changing calls made so far

vars == <<CODECS, cls_ENABLED, AVAILABLE, objs, arg, ret, assigned, changes>>

-----------------------------------------------------------------------------
(* Bounds of the model.                                                    *)

\* number of descriptor slots
NumObjs == 2
\* number of state-changing calls (lookups, flag assignments) in one behaviour
MaxChanges == 3
\* number of pieces a caller's L16 MIME string is put together from
MaxParts == 6
\* number of pieces a MIME type given to accepts() is put together from
MaxMimeParts == 3

-----------------------------------------------------------------------------
(* Python values.                                                          *)

PyNone == [t |-> "NoneType", i |-> 0, s |-> <<>>]
PyInt(n) == [t |-> "int", i |-> n, s |-> <<>>]
PyStr(cs) == [t |-> "unicode", i |-> 0, s |-> cs]
PyBool(b) == [t |-> "bool", i |-> IF b THEN 1 ELSE 0, s |-> <<>>]
\* an opaque object of another module (Rules(), an encoder instance)
PyObj(cls, args) == [t |-> cls, i |-> 0, s |-> args]

\* bool(v): None, 0, False and the empty string are false
Truthy(v) ==
    CASE v.t = "NoneType" -> FALSE
      [] v.t = "int" -> v.i # 0
      [] v.t = "bool" -> v.i # 0
      [] v.t = "unicode" -> Len(v.s) > 0
      [] OTHER -> TRUE

\* a == b on None and integers
PyEq(a, b) == a = b

\* a > b on None and integers as Python 2 orders them: None is smaller
\* than every integer, and None > None is false
PyGt(a, b) ==
    CASE a.t = "NoneType" -> FALSE
      [] b.t = "NoneType" -> TRUE
      [] OTHER -> a.i > b.i

-----------------------------------------------------------------------------
(* Characters and text.                                                    *)

UpperChars == <<"A","B","C","D","E","F","G","H","I","J","K","L","M",
                "N","O","P","Q","R","S","T","U","V","W","X","Y","Z">>
LowerChars == <<"a","b","c","d","e","f","g","h","i","j","k","l","m",
                "n","o","p","q","r","s","t","u","v","w","x","y","z">>
Digits == <<"0","1","2","3","4","5","6","7","8","9">>

IsDigit(c) == \E k \in 1..Len(Digits) : Digits[k] = c
DigitValue(c) == (CHOOSE k \in 1..Len(Digits) : Digits[k] = c) - 1

\* unicode.lower() on one character, then on a string
LowerChar(c) ==
    IF \E k \in 1..Len(UpperChars) : UpperChars[k] = c
    THEN LowerChars[CHOOSE k \in 1..Len(UpperChars) : UpperChars[k] = c]
    ELSE c
lower(cs) == [k \in 1..Len(cs) |-> LowerChar(cs[k])]

\* unicode.startswith(prefix)
startswith(cs, prefix) ==
    /\ Len(prefix) <= Len(cs)
    /\ \A k \in 1..Len(prefix) : cs[k] = prefix[k]

\* whether `word` stands in cs at position p
OccursAt(cs, word, p) ==
    /\ p >= 1
    /\ p + Len(word) - 1 <= Len(cs)
    /\ \A k \in 1..Len(word) : cs[p + k - 1] = word[k]

\* cs[a:b] with 1-based inclusive bounds, empty when b < a
Slice(cs, a, b) == IF b < a THEN <<>> ELSE SubSeq(cs, a, b)


\* int(text) of Python 2 on text without white space: an optional sign and
\* at least one decimal digit; anything else raises ValueError
IntParses(cs) ==
    LET body == IF Len(cs) > 0 /\ cs[1] \in {"+", "-"} THEN Tail(cs) ELSE cs
    IN  Len(body) > 0 /\ \A k \in 1..Len(body) : IsDigit(body[k])

RECURSIVE DecimalValue(_)
DecimalValue(ds) ==
    IF Len(ds) = 0 THEN 0
    ELSE 10 * DecimalValue(SubSeq(ds, 1, Len(ds) - 1)) + DigitValue(ds[Len(ds)])

int(cs) ==
    IF cs[1] = "-" THEN 0 - DecimalValue(Tail(cs))
    ELSE IF cs[1] = "+" THEN DecimalValue(Tail(cs))
    ELSE DecimalValue(cs)

\* '{}'.format(n) of an integer n
RECURSIVE NatChars(_)
NatChars(n) ==
    IF n < 10 THEN <<Digits[n + 1]>>
    ELSE NatChars(n \div 10) \o <<Digits[(n % 10) + 1]>>

IntChars(n) == IF n < 0 THEN <<"-">> \o NatChars(0 - n) ELSE NatChars(n)

\* '{}'.format(v) of a value held in sample_rate or channels
FormatValue(v) ==
    CASE v.t = "int" -> IntChars(v.i)
      [] v.t = "unicode" -> v.s
      [] OTHER -> <<"N","o","n","e">>  \* None

-----------------------------------------------------------------------------
(* The classes of the module.                                              *)

CodecKinds == {"Mp3Codec", "WavCodec", "L16Codec", "AacCodec", "OggCodec",
               "FlacCodec", "OpusCodec"}

\* the method resolution order of each codec class
MRO(cls) ==
    IF cls \in {"Mp3Codec", "AacCodec", "OggCodec", "OpusCodec"}
    THEN <<cls, "BitRateMixin", "BaseCodec", "object">>
    ELSE IF cls \in {"WavCodec", "L16Codec", "FlacCodec"}
    THEN <<cls, "BaseCodec", "object">>
    ELSE IF cls \in {"BaseCodec", "BitRateMixin"}
    THEN <<cls, "object">>
    ELSE <<"object">>

issubclass(cls, base) == \E k \in 1..Len(MRO(cls)) : MRO(cls)[k] = base

IDENTIFIER(cls) ==
    CASE cls = "Mp3Codec" -> PyStr(<<"m","p","3">>)  \* mp3
      [] cls = "WavCodec" -> PyStr(<<"w","a","v">>)  \* wav
      [] cls = "L16Codec" -> PyStr(<<"l","1","6">>)  \* l16
      [] cls = "AacCodec" -> PyStr(<<"a","a","c">>)  \* aac
      [] cls = "OggCodec" -> PyStr(<<"o","g","g">>)  \* ogg
      [] cls = "FlacCodec" -> PyStr(<<"f","l","a","c">>)  \* flac
      [] cls = "OpusCodec" -> PyStr(<<"o","p","u","s">>)  \* opus
      [] OTHER -> PyNone

SUPPORTED_MIME_TYPES(cls) ==
    CASE cls = "Mp3Codec" ->
            << <<"a","u","d","i","o","/","m","p","e","g">>,  \* audio/mpeg
               <<"a","u","d","i","o","/","m","p","3">> >>  \* audio/mp3
      [] cls = "WavCodec" ->
            << <<"a","u","d","i","o","/","w","a","v">>,  \* audio/wav
               <<"a","u","d","i","o","/","x","-","w","a","v">> >>  \* audio/x-wav
      [] cls = "L16Codec" ->
            << <<"a","u","d","i","o","/","l","1","6">> >>  \* audio/l16
      [] cls = "AacCodec" ->
            << <<"a","u","d","i","o","/","a","a","c">>,  \* audio/aac
               <<"a","u","d","i","o","/","x","-","a","a","c">> >>  \* audio/x-aac
      [] cls = "OggCodec" ->
            << <<"a","u","d","i","o","/","o","g","g">>,  \* audio/ogg
               <<"a","u","d","i","o","/","x","-","o","g","g">>,  \* audio/x-ogg
               <<"a","p","p","l","i","c","a","t","i","o","n","/","o","g","g">> >>  \* application/ogg
      [] cls = "FlacCodec" ->
            << <<"a","u","d","i","o","/","f","l","a","c">>,  \* audio/flac
               <<"a","u","d","i","o","/","x","-","f","l","a","c">> >>  \* audio/x-flac
      [] cls = "OpusCodec" ->
            << <<"a","u","d","i","o","/","o","p","u","s">>,  \* audio/opus
               <<"a","u","d","i","o","/","x","-","o","p","u","s">> >>  \* audio/x-opus

ENCODERS(cls) ==
    CASE cls = "Mp3Codec" -> <<"FFMpegMp3Encoder", "AVConvMp3Encoder">>
      [] cls = "WavCodec" -> <<"FFMpegWavEncoder", "AVConvWavEncoder">>
      [] cls = "L16Codec" -> <<"FFMpegL16Encoder", "AVConvL16Encoder">>
      [] cls = "AacCodec" -> <<"FFMpegAacEncoder", "AVConvAacEncoder">>
      [] cls = "OggCodec" -> <<"FFMpegOggEncoder", "AVConvOggEncoder">>
      [] cls = "FlacCodec" -> <<"FFMpegFlacEncoder", "AVConvFlacEncoder">>
      [] cls = "OpusCodec" -> <<"FFMpegOpusEncoder", "AVConvOpusEncoder">>

EncoderKinds ==
    UNION {{ENCODERS(c)[k] : k \in 1..Len(ENCODERS(c))} : c \in CodecKinds}

-----------------------------------------------------------------------------
(* Descriptors: a class and the instance __dict__.                         *)

\* no descriptor in the slot
NoObj == [cls |-> "NoneType", dict |-> <<>>]

\* self.<name> = value
SetAttr(self, name, value) ==
    [self EXCEPT !.dict = [a \in DOMAIN self.dict \cup {name} |->
                              IF a = name THEN value ELSE self.dict[a]]]

BaseCodec__init__(self) ==
    [self EXCEPT !.dict = [a \in DOMAIN self.dict \cup
                                {"mime_type", "suffix", "priority", "rules"} |->
        CASE a = "mime_type" -> PyNone
          [] a = "suffix" -> PyNone
          [] a = "priority" -> PyNone
          [] a = "rules" -> PyObj("Rules", <<>>)
          [] OTHER -> self.dict[a]]]

BitRateMixin__init__(self) == SetAttr(self, "bit_rate", PyNone)

\* mime_string or default
OrDefault(mime_string, default) ==
    IF Truthy(mime_string) THEN mime_string ELSE PyStr(default)

Mp3Codec__init__(mime_string) ==
    LET s0 == BitRateMixin__init__(BaseCodec__init__([cls |-> "Mp3Codec", dict |-> <<>>]))
        s1 == SetAttr(s0, "priority", PyInt(18))
        s2 == SetAttr(s1, "suffix", PyStr(<<"m","p","3">>))  \* mp3
    IN  SetAttr(s2, "mime_type", OrDefault(mime_string, <<"a","u","d","i","o","/","m","p","3">>))  \* audio/mp3

WavCodec__init__(mime_string) ==
    LET s0 == BaseCodec__init__([cls |-> "WavCodec", dict |-> <<>>])
        s1 == SetAttr(s0, "priority", PyInt(15))
        s2 == SetAttr(s1, "suffix", PyStr(<<"w","a","v">>))  \* wav
    IN  SetAttr(s2, "mime_type", OrDefault(mime_string, <<"a","u","d","i","o","/","w","a","v">>))  \* audio/wav

AacCodec__init__(mime_string) ==
    LET s0 == BitRateMixin__init__(BaseCodec__init__([cls |-> "AacCodec", dict |-> <<>>]))
        s1 == SetAttr(s0, "priority", PyInt(12))
        s2 == SetAttr(s1, "suffix", PyStr(<<"a","a","c">>))  \* aac
    IN  SetAttr(s2, "mime_type", OrDefault(mime_string, <<"a","u","d","i","o","/","a","a","c">>))  \* audio/aac

OggCodec__init__(mime_string) ==
    LET s0 == BitRateMixin__init__(BaseCodec__init__([cls |-> "OggCodec", dict |-> <<>>]))
        s1 == SetAttr(s0, "priority", PyInt(6))
        s2 == SetAttr(s1, "suffix", PyStr(<<"o","g","g">>))  \* ogg
    IN  SetAttr(s2, "mime_type", OrDefault(mime_string, <<"a","u","d","i","o","/","o","g","g">>))  \* audio/ogg

FlacCodec__init__(mime_string) ==
    LET s0 == BaseCodec__init__([cls |-> "FlacCodec", dict |-> <<>>])
        s1 == SetAttr(s0, "priority", PyInt(9))
        s2 == SetAttr(s1, "suffix", PyStr(<<"f","l","a","c">>))  \* flac
    IN  SetAttr(s2, "mime_type", OrDefault(mime_string, <<"a","u","d","i","o","/","f","l","a","c">>))  \* audio/flac

OpusCodec__init__(mime_string) ==
    LET s0 == BitRateMixin__init__(BaseCodec__init__([cls |-> "OpusCodec", dict |-> <<>>]))
        s1 == SetAttr(s0, "priority", PyInt(3))
        s2 == SetAttr(s1, "suffix", PyStr(<<"o","p","u","s">>))  \* opus
    IN  SetAttr(s2, "mime_type", OrDefault(mime_string, <<"a","u","d","i","o","/","o","p","u","s">>))  \* audio/opus

-----------------------------------------------------------------------------
(* re.match of the L16 pattern                                             *)
(*   (.*?)(?P<mime_type>.*?);(.*?)rate=(?P<sample_rate>.*?);               *)
(*   (.*?)channels=(?P<channels>\d)                                        *)
(* anchored at the start of the string.  Every .*? is lazy: it takes the   *)
(* shortest text for which the rest of the pattern still matches.  The     *)
(* texts of the model hold no line break, so "." matches every character.  *)

KwRate == <<"r","a","t","e","=">>  \* rate=
KwChannels == <<"c","h","a","n","n","e","l","s","=">>  \* channels=

\* the least element of a non-empty set of positions
Least(ps) == CHOOSE p \in ps : \A q \in ps : p <= q

\* Positions where the pattern's later parts can match: "channels=" and a
\* digit (ChannelsAt); a ";" with one of the positions cn somewhere after it
\* (RateEndAt); "rate=" with one of the positions re somewhere after it
\* (RateAt); a ";" with one of the positions ra somewhere after it
\* (MimeEndAt).
ChannelsAt(cs) ==
    {n \in 1..Len(cs) : /\ OccursAt(cs, KwChannels, n)
                        /\ n + Len(KwChannels) <= Len(cs)
                        /\ IsDigit(cs[n + Len(KwChannels)])}

RateEndAt(cs, cn) ==
    {m \in 1..Len(cs) : cs[m] = ";" /\ \E n \in cn : n >= m + 1}

RateAt(cs, re) ==
    {k \in 1..Len(cs) : /\ OccursAt(cs, KwRate, k)
                        /\ \E m \in re : m >= k + Len(KwRate)}

MimeEndAt(cs, ra) ==
    {j \in 1..Len(cs) : cs[j] = ";" /\ \E k \in ra : k >= j + 1}

\* The match: each lazy group as short as the rest of the pattern allows,
\* the earlier group first.  The first, unnamed group is empty whenever
\* there is a match, since mime_type can take the text it would hold.
re_match(cs) ==
    LET cn == ChannelsAt(cs)
        re == RateEndAt(cs, cn)
        ra == RateAt(cs, re)
        me == MimeEndAt(cs, ra)
    IN  IF me = {} THEN [matched |-> FALSE]
        ELSE LET j == Least(me)
                 k == Least({x \in ra : x >= j + 1})
                 m == Least({x \in re : x >= k + Len(KwRate)})
                 n == Least({x \in cn : x >= m + 1})
             IN  [matched |-> TRUE,
                  mime_type |-> Slice(cs, 1, j - 1),
                  sample_rate |-> Slice(cs, k + Len(KwRate), m - 1),
                  channels |-> <<cs[n + Len(KwChannels)]>>]

\* The outcome of a constructor call: the exception it raised ("" when it
\* returned) and the descriptor (NoObj when it raised).
Returned(self) == [exc |-> "", self |-> self]
Raised(exc) == [exc |-> exc, self |-> NoObj]

L16Codec__init__(mime_string) ==
    LET s0 == BaseCodec__init__([cls |-> "L16Codec", dict |-> <<>>])
        s1 == SetAttr(s0, "priority", PyInt(0))
        s2 == SetAttr(s1, "suffix", PyStr(<<"p","c","m","1","6">>))  \* pcm16
        s3 == SetAttr(s2, "mime_type", PyStr(<<"a","u","d","i","o","/","L","1","6">>))  \* audio/L16
        s4 == SetAttr(s3, "sample_rate", PyNone)
        s5 == SetAttr(s4, "channels", PyNone)
    IN  IF ~Truthy(mime_string) THEN Returned(s5)
        ELSE LET match == re_match(mime_string.s)
             IN  IF ~match.matched THEN Returned(s5)
                 ELSE IF ~IntParses(match.sample_rate) THEN Raised("ValueError")
                 ELSE Returned(
                        SetAttr(
                          SetAttr(
                            SetAttr(s5, "mime_type", PyStr(match.mime_type)),
                            "sample_rate", PyInt(int(match.sample_rate))),
                          "channels", PyInt(int(match.channels))))

\* cls(mime_string)
New(cls, mime_string) ==
    CASE cls = "Mp3Codec" -> Returned(Mp3Codec__init__(mime_string))
      [] cls = "WavCodec" -> Returned(WavCodec__init__(mime_string))
      [] cls = "L16Codec" -> L16Codec__init__(mime_string)
      [] cls = "AacCodec" -> Returned(AacCodec__init__(mime_string))
      [] cls = "OggCodec" -> Returned(OggCodec__init__(mime_string))
      [] cls = "FlacCodec" -> Returned(FlacCodec__init__(mime_string))
      [] cls = "OpusCodec" -> Returned(OpusCodec__init__(mime_string))

-----------------------------------------------------------------------------
(* Properties and methods of a descriptor.                                 *)

\* the class that a lookup of `name` on cls finds first along the MRO
Owner(cls, defining) ==
    MRO(cls)[Least({k \in 1..Len(MRO(cls)) : MRO(cls)[k] \in defining})]

\* type(self).ENABLED, read along the MRO from the class attributes E
enabled_get(cls, E) == E[Owner(cls, DOMAIN E)]

\* enabled_set on the class that owns ENABLED instead of on type(self)
enabled_set_on_owner(cls, E, value) ==
    [c \in DOMAIN E |-> IF c = Owner(cls, DOMAIN E) THEN value ELSE E[c]]

\* type(self).ENABLED = value
enabled_set(cls, E, value) ==
    [c \in DOMAIN E \cup {cls} |-> IF c = cls THEN value ELSE E[c]]

BaseCodec_specific_mime_type(self) == self.dict.mime_type

L16Codec_specific_mime_type(self) ==
    IF Truthy(self.dict.sample_rate) /\ Truthy(self.dict.channels)
    THEN PyStr(FormatValue(self.dict.mime_type) \o <<";","r","a","t","e","=">>  \* ;rate=
               \o FormatValue(self.dict.sample_rate) \o <<";","c","h","a","n","n","e","l","s","=">>  \* ;channels=
               \o FormatValue(self.dict.channels))
    ELSE self.dict.mime_type

specific_mime_type(self) ==
    IF Owner(self.cls, {"L16Codec", "BaseCodec"}) = "L16Codec"
    THEN L16Codec_specific_mime_type(self)
    ELSE BaseCodec_specific_mime_type(self)

\* FirstAvailable without the test of AVAILABLE: the first candidate, always
FirstAvailable_untested(encs, avail, k) ==
    IF k > Len(encs) THEN "" ELSE encs[k]

\* the loop of the three encoder properties: the first encoder kind, from
\* position k on, whose AVAILABLE flag is set; "" when there is none
RECURSIVE FirstAvailable(_, _, _)
FirstAvailable(encs, avail, k) ==
    IF k > Len(encs) THEN ""
    ELSE IF avail[encs[k]] THEN encs[k]
    ELSE FirstAvailable(encs, avail, k + 1)

BaseCodec_encoder(self, avail) ==
    LET e == FirstAvailable(ENCODERS(self.cls), avail, 1)
    IN  IF e = "" THEN PyNone ELSE PyObj(e, <<>>)

BitRateMixin_encoder(self, avail) ==
    LET e == FirstAvailable(ENCODERS(self.cls), avail, 1)
    IN  IF e = "" THEN PyNone ELSE PyObj(e, <<self.dict.bit_rate>>)

L16Codec_encoder(self, avail) ==
    LET e == FirstAvailable(ENCODERS(self.cls), avail, 1)
    IN  IF e = "" THEN PyNone
        ELSE PyObj(e, <<self.dict.sample_rate, self.dict.channels>>)

encoder(self, avail) ==
    LET owner == Owner(self.cls, {"L16Codec", "BitRateMixin", "BaseCodec"})
    IN  CASE owner = "L16Codec" -> L16Codec_encoder(self, avail)
          [] owner = "BitRateMixin" -> BitRateMixin_encoder(self, avail)
          [] OTHER -> BaseCodec_encoder(self, avail)

\* AcceptsFrom without lower() on the input
RECURSIVE AcceptsFrom_case_sensitive(_, _, _)
AcceptsFrom_case_sensitive(types, mime_type, k) ==
    IF k > Len(types) THEN FALSE
    ELSE IF startswith(mime_type, lower(types[k])) THEN TRUE
    ELSE AcceptsFrom_case_sensitive(types, mime_type, k + 1)

\* the loop of accepts over SUPPORTED_MIME_TYPES from position k on
RECURSIVE AcceptsFrom(_, _, _)
AcceptsFrom(types, mime_type, k) ==
    IF k > Len(types) THEN FALSE
    ELSE IF startswith(lower(mime_type), lower(types[k])) THEN TRUE
    ELSE AcceptsFrom(types, mime_type, k + 1)

accepts(cls, mime_type) == AcceptsFrom(SUPPORTED_MIME_TYPES(cls), mime_type, 1)

-----------------------------------------------------------------------------
(* Comparison.                                                             *)

BaseCodec__eq__(self, other) == self.cls = other.cls

BaseCodec__gt__(self, other) == self.cls = other.cls

\* BitRateMixin.__eq__ without the comparison of bit_rate
BitRateMixin__eq__kind_only(self, other) == self.cls = other.cls

BitRateMixin__eq__(self, other) ==
    self.cls = other.cls /\ PyEq(self.dict.bit_rate, other.dict.bit_rate)

BitRateMixin__gt__(self, other) ==
    self.cls = other.cls /\ PyGt(self.dict.bit_rate, other.dict.bit_rate)

L16Codec__eq__(self, other) ==
    self.cls = other.cls /\
        (/\ PyEq(self.dict.sample_rate, other.dict.sample_rate)
         /\ PyEq(self.dict.channels, other.dict.channels))

L16Codec__gt__(self, other) ==
    self.cls = other.cls /\
        (/\ PyGt(self.dict.sample_rate, other.dict.sample_rate)
         /\ PyGt(self.dict.channels, other.dict.channels))

\* self == other: __eq__ as the MRO of type(self) finds it
Eq(self, other) ==
    LET owner == Owner(self.cls, {"L16Codec", "BitRateMixin", "BaseCodec"})
    IN  CASE owner = "L16Codec" -> L16Codec__eq__(self, other)
          [] owner = "BitRateMixin" -> BitRateMixin__eq__(self, other)
          [] OTHER -> BaseCodec__eq__(self, other)

\* self > other: __gt__ as the MRO of type(self) finds it
Gt(self, other) ==
    LET owner == Owner(self.cls, {"L16Codec", "BitRateMixin", "BaseCodec"})
    IN  CASE owner = "L16Codec" -> L16Codec__gt__(self, other)
          [] owner = "BitRateMixin" -> BitRateMixin__gt__(self, other)
          [] OTHER -> BaseCodec__gt__(self, other)

\* The three methods functools.total_ordering adds to BaseCodec, whose only
\* ordering method is __gt__; every codec class inherits them.
Lt(self, other) == ~(Gt(self, other) \/ Eq(self, other))

Ge(self, other) == Gt(self, other) \/ Eq(self, other)

Le(self, other) == ~Gt(self, other)

-----------------------------------------------------------------------------
(* Serialization.                                                          *)

\* to_json that leaves mime_type as stored instead of specific_mime_type
to_json_raw_mime(self) ==
    LET attributes == {"priority", "suffix"}
        d == [a \in DOMAIN self.dict \ attributes |-> self.dict[a]]
    IN  [a \in DOMAIN d \cup {"identifier"} |->
            CASE a = "identifier" -> IDENTIFIER(self.cls)
              [] OTHER -> d[a]]

to_json(self) ==
    LET attributes == {"priority", "suffix", "mime_type"}
        d == [a \in DOMAIN self.dict \ attributes |-> self.dict[a]]
    IN  [a \in DOMAIN d \cup {"mime_type", "identifier"} |->
            CASE a = "identifier" -> IDENTIFIER(self.cls)
              [] a = "mime_type" -> specific_mime_type(self)
              [] OTHER -> d[a]]

-----------------------------------------------------------------------------
(* The registry.                                                           *)

\* inspect.getmembers(module): the names bound in the module, sorted
ModuleMembers ==
    <<"AacCodec", "BaseCodec", "BitRateMixin", "CODECS", "FlacCodec",
      "L16Codec", "Mp3Codec", "OggCodec", "OpusCodec", "WavCodec",
      "functools", "inspect", "load_codecs", "logger", "logging",
      "pulseaudio_dlna", "re", "sys", "unicode_literals">>

isclass(name) == name \in CodecKinds \cup {"BaseCodec", "BitRateMixin"}

\* CODECS[key] = value
SetItem(dict, key, value) ==
    [x \in DOMAIN dict \cup {key} |-> IF x = key THEN value ELSE dict[x]]

\* LoadFrom without the exclusion of BaseCodec
RECURSIVE LoadFrom_with_base(_, _, _)
LoadFrom_with_base(members, k, dict) ==
    IF k > Len(members) THEN dict
    ELSE LET type == members[k]
         IN  IF isclass(type) /\ issubclass(type, "BaseCodec")
             THEN LoadFrom_with_base(members, k + 1,
                                     SetItem(dict, IDENTIFIER(type), type))
             ELSE LoadFrom_with_base(members, k + 1, dict)

\* the loop of load_codecs over the members from position k on
RECURSIVE LoadFrom(_, _, _)
LoadFrom(members, k, dict) ==
    IF k > Len(members) THEN dict
    ELSE LET type == members[k]
         IN  IF isclass(type) /\ issubclass(type, "BaseCodec") /\ type # "BaseCodec"
             THEN LoadFrom(members, k + 1, SetItem(dict, IDENTIFIER(type), type))
             ELSE LoadFrom(members, k + 1, dict)

load_codecs(dict) ==
    IF Cardinality(DOMAIN dict) = 0 THEN LoadFrom(ModuleMembers, 1, dict) ELSE dict

-----------------------------------------------------------------------------
(* Inputs.                                                                 *)

\* the text put together from the pieces ps[k], ..., ps[Len(ps)]
RECURSIVE Concat(_)
Concat(ps) == IF Len(ps) = 0 THEN <<>> ELSE Head(ps) \o Concat(Tail(ps))

SeqsUpTo(S, n) == UNION {[1..m -> S] : m \in 0..n}

\* pieces of the MIME strings given to L16Codec(...)
L16Pieces ==
    { <<"a","u","d","i","o","/","L","1","6">>, <<";">>, KwRate, KwChannels, <<"2">>, <<"0">>, <<"x">> }  \* audio/L16

\* MIME strings as renderers advertise them, and broken variants
L16Examples ==
    { <<"a","u","d","i","o","/","L","1","6",";","r","a","t","e","=","4","4","1","0","0",";","c","h","a","n","n","e","l","s","=","2">>,  \* audio/L16;rate=44100;channels=2
      <<"a","u","d","i","o","/","L","1","6",";","r","a","t","e","=","4","8","0","0","0",";","c","h","a","n","n","e","l","s","=","2">>,  \* audio/L16;rate=48000;channels=2
      <<"a","u","d","i","o","/","L","1","6",";","r","a","t","e","=","4","4","1","0","0",";","c","h","a","n","n","e","l","s","=","1">>,  \* audio/L16;rate=44100;channels=1
      <<"a","u","d","i","o","/","L","1","6",";","r","a","t","e","=","4","4","1","0","0",";","c","h","a","n","n","e","l","s","=","0">>,  \* audio/L16;rate=44100;channels=0
      <<"a","u","d","i","o","/","L","1","6",";","r","a","t","e","=","4","4","1","0","0">>,  \* audio/L16;rate=44100
      <<"a","u","d","i","o","/","L","1","6",";","r","a","t","e","=",";","c","h","a","n","n","e","l","s","=","2">>,  \* audio/L16;rate=;channels=2
      <<"a","u","d","i","o","/","L","1","6",";","r","a","t","e","=","a","b","c",";","c","h","a","n","n","e","l","s","=","2">>,  \* audio/L16;rate=abc;channels=2
      <<"a","u","d","i","o","/","L","1","6",";","c","h","a","n","n","e","l","s","=","2",";","r","a","t","e","=","4","4","1","0","0">>,  \* audio/L16;channels=2;rate=44100
      <<"a","u","d","i","o","/","L","1","6",";","r","a","t","e","=","-","8",";","c","h","a","n","n","e","l","s","=","2">> }  \* audio/L16;rate=-8;channels=2

L16Strings(n) ==
    {PyNone} \cup {PyStr(cs) : cs \in L16Examples}
             \cup {PyStr(Concat(ps)) : ps \in SeqsUpTo(L16Pieces, n)}

\* pieces of the MIME types given to accepts(...)
MimePieces ==
    { <<"a","u","d","i","o","/">>, <<"A","U","D","I","O","/">>, <<"A","u","d","i","o","/","x","-">>, <<"v","i","d","e","o","/">>, <<"a","p","p","l","i","c","a","t","i","o","n","/">>,  \* audio/, AUDIO/, Audio/x-, video/, application/
      <<"m","p","3">>, <<"M","P","3">>, <<"m","p","e","g">>, <<"m","p","4">>, <<"L","1","6">>, <<"o","g","g">>, <<";","r","a","t","e","=","4","4","1","0","0">> }  \* mp3, MP3, mpeg, mp4, L16, ogg, ;rate=44100

MimeStrings(n) == {PyStr(Concat(ps)) : ps \in SeqsUpTo(MimePieces, n)}

\* what a caller passes as mime_string when it constructs a descriptor
MimeArgs(cls) ==
    IF cls = "L16Codec"
    THEN {PyNone} \cup {PyStr(cs) : cs \in
              { <<"a","u","d","i","o","/","L","1","6",";","r","a","t","e","=","4","4","1","0","0",";","c","h","a","n","n","e","l","s","=","2">>,  \* audio/L16;rate=44100;channels=2
                <<"a","u","d","i","o","/","L","1","6",";","r","a","t","e","=","4","8","0","0","0",";","c","h","a","n","n","e","l","s","=","2">>,  \* audio/L16;rate=48000;channels=2
                <<"a","u","d","i","o","/","L","1","6",";","r","a","t","e","=","4","4","1","0","0",";","c","h","a","n","n","e","l","s","=","1">>,  \* audio/L16;rate=44100;channels=1
                <<"a","u","d","i","o","/","L","1","6",";","r","a","t","e","=","4","8","0","0","0",";","c","h","a","n","n","e","l","s","=","1">>,  \* audio/L16;rate=48000;channels=1
                <<"a","u","d","i","o","/","L","1","6",";","r","a","t","e","=","4","4","1","0","0",";","c","h","a","n","n","e","l","s","=","0">>,  \* audio/L16;rate=44100;channels=0
                <<"a","u","d","i","o","/","L","1","6",";","r","a","t","e","=","4","4","1","0","0">> }}  \* audio/L16;rate=44100
    ELSE {PyNone, PyStr(<<>>), PyStr(SUPPORTED_MIME_TYPES(cls)[1])}

\* the bit rates a caller assigns
BitRates == {PyNone, PyInt(128), PyInt(192), PyInt(256)}

Slots == 1..NumObjs

\* the slots of the two operands of a comparison, and of a descriptor and
\* its reconstruction
Operands == {1, 2}

-----------------------------------------------------------------------------
(* The state after "CODECS = {}" and the class statements, before the      *)
(* load_codecs() call that ends the module; and the state after it.        *)

NoRet == [op |-> "", args |-> <<>>, value |-> PyNone, exc |-> ""]

InitImporting ==
    /\ CODECS = <<>>
    /\ cls_ENABLED = [c \in {"BaseCodec"} |-> PyBool(TRUE)]
    /\ AVAILABLE = [e \in EncoderKinds |-> TRUE]
    /\ objs = [i \in Slots |-> NoObj]
    /\ assigned = [c \in CodecKinds |-> PyBool(TRUE)]
    /\ arg = PyNone
    /\ ret = NoRet
    /\ changes = 0

InitImported(args) ==
    /\ arg \in args
    /\ CODECS = load_codecs(<<>>)
    /\ cls_ENABLED = [c \in {"BaseCodec"} |-> PyBool(TRUE)]
    /\ AVAILABLE = [e \in EncoderKinds |-> TRUE]
    /\ objs = [i \in Slots |-> NoObj]
    /\ assigned = [c \in CodecKinds |-> PyBool(TRUE)]
    /\ ret = NoRet
    /\ changes = 0

-----------------------------------------------------------------------------
(* Operations.                                                             *)

\* load_codecs(): at the end of the module, and by any caller after it
LoadCodecs ==
    /\ CODECS' = load_codecs(CODECS)
    /\ ret' = [op |-> "load_codecs", args |-> <<>>, value |-> PyNone, exc |-> ""]
    /\ UNCHANGED <<cls_ENABLED, AVAILABLE, objs, assigned, arg, changes>>

\* objs[i] = CODECS[id](): a descriptor of the kind registered under id
Lookup(i, id) ==
    /\ id \in DOMAIN CODECS
    /\ changes < MaxChanges
    /\ objs' = [objs EXCEPT ![i] = New(CODECS[id], PyNone).self]
    /\ ret' = [op |-> "__init__", args |-> <<i>>, value |-> PyNone, exc |-> ""]
    /\ changes' = changes + 1
    /\ UNCHANGED <<CODECS, cls_ENABLED, AVAILABLE, assigned, arg>>

\* objs[i] = cls(mime_string)
Construct(i, cls, mime_string) ==
    /\ LET outcome == New(cls, mime_string)
       IN  /\ objs' = [objs EXCEPT ![i] = outcome.self]
           /\ ret' = [op |-> "__init__", args |-> <<i>>, value |-> PyNone,
                      exc |-> outcome.exc]
    /\ UNCHANGED <<CODECS, cls_ENABLED, AVAILABLE, assigned, arg, changes>>

\* objs[i].bit_rate = value
SetBitRate(i, value) ==
    /\ objs[i] # NoObj
    /\ "bit_rate" \in DOMAIN objs[i].dict
    /\ objs' = [objs EXCEPT ![i] = SetAttr(objs[i], "bit_rate", value)]
    /\ ret' = [op |-> "bit_rate", args |-> <<i>>, value |-> PyNone, exc |-> ""]
    /\ UNCHANGED <<CODECS, cls_ENABLED, AVAILABLE, assigned, arg, changes>>

\* objs[i].enabled = value; `assigned` records it for the kind of objs[i]
SetEnabled(i, value) ==
    /\ objs[i] # NoObj
    /\ changes < MaxChanges
    /\ cls_ENABLED' = enabled_set(objs[i].cls, cls_ENABLED, value)
    /\ assigned' = [assigned EXCEPT ![objs[i].cls] = value]
    /\ ret' = [op |-> "enabled.setter", args |-> <<i>>, value |-> PyNone, exc |-> ""]
    /\ changes' = changes + 1
    /\ UNCHANGED <<CODECS, AVAILABLE, objs, arg>>

\* objs[i].enabled
GetEnabled(i) ==
    /\ objs[i] # NoObj
    /\ ret' = [op |-> "enabled", args |-> <<i>>,
               value |-> enabled_get(objs[i].cls, cls_ENABLED), exc |-> ""]
    /\ UNCHANGED <<CODECS, cls_ENABLED, AVAILABLE, objs, assigned, arg, changes>>

\* encoder_type.AVAILABLE = value, as the host's tools come and go
SetAvailable(e, value) ==
    /\ changes < MaxChanges
    /\ AVAILABLE' = [AVAILABLE EXCEPT ![e] = value]
    /\ ret' = [op |-> "AVAILABLE", args |-> <<>>, value |-> PyNone, exc |-> ""]
    /\ changes' = changes + 1
    /\ UNCHANGED <<CODECS, cls_ENABLED, objs, assigned, arg>>

\* objs[i].encoder
GetEncoder(i) ==
    /\ objs[i] # NoObj
    /\ ret' = [op |-> "encoder", args |-> <<i>>,
               value |-> encoder(objs[i], AVAILABLE), exc |-> ""]
    /\ UNCHANGED <<CODECS, cls_ENABLED, AVAILABLE, objs, assigned, arg, changes>>

\* cls.accepts(arg)
Accepts(cls) ==
    /\ ret' = [op |-> "accepts", args |-> <<cls>>,
               value |-> PyBool(accepts(cls, arg.s)), exc |-> ""]
    /\ UNCHANGED <<CODECS, cls_ENABLED, AVAILABLE, objs, assigned, arg, changes>>

\* objs[i] == objs[j], objs[i] > objs[j], <, >= and <=
Compare(i, j) ==
    /\ objs[i] # NoObj /\ objs[j] # NoObj
    /\ ret' = [op |-> "compare", args |-> <<i, j>>,
               value |-> [eq |-> Eq(objs[i], objs[j]),
                          gt |-> Gt(objs[i], objs[j]),
                          lt |-> Lt(objs[i], objs[j]),
                          ge |-> Ge(objs[i], objs[j]),
                          le |-> Le(objs[i], objs[j])],
               exc |-> ""]
    /\ UNCHANGED <<CODECS, cls_ENABLED, AVAILABLE, objs, assigned, arg, changes>>

\* objs[i].to_json()
ToJson(i) ==
    /\ objs[i] # NoObj
    /\ ret' = [op |-> "to_json", args |-> <<i>>, value |-> to_json(objs[i]),
               exc |-> ""]
    /\ UNCHANGED <<CODECS, cls_ENABLED, AVAILABLE, objs, assigned, arg, changes>>

\* objs[1] = L16Codec(arg)
NewL16 ==
    /\ objs[1] = NoObj /\ ret.op = ""
    /\ LET outcome == New("L16Codec", arg)
       IN  /\ objs' = [objs EXCEPT ![1] = outcome.self]
           /\ ret' = [op |-> "L16Codec", args |-> <<1>>, value |-> PyNone,
                      exc |-> outcome.exc]
    /\ UNCHANGED <<CODECS, cls_ENABLED, AVAILABLE, assigned, arg, changes>>

\* objs[2] = L16Codec(objs[1].specific_mime_type)
RoundTrip ==
    /\ objs[1] # NoObj /\ objs[2] = NoObj
    /\ LET outcome == New("L16Codec", specific_mime_type(objs[1]))
       IN  /\ objs' = [objs EXCEPT ![2] = outcome.self]
           /\ ret' = [op |-> "roundtrip", args |-> <<2>>, value |-> PyNone,
                      exc |-> outcome.exc]
    /\ UNCHANGED <<CODECS, cls_ENABLED, AVAILABLE, assigned, arg, changes>>

-----------------------------------------------------------------------------
(* Specifications.                                                         *)

\* the registry and the kind-level enabled flag
NextKinds ==
    \/ LoadCodecs
    \/ \E i \in Slots, id \in {IDENTIFIER(c) : c \in CodecKinds} : Lookup(i, id)
    \/ \E i \in Slots, v \in BOOLEAN : SetEnabled(i, PyBool(v))
    \/ \E i \in Slots : GetEnabled(i)

SpecKinds == InitImporting /\ [][NextKinds]_vars

\* the encoder resolver
NextEncoder ==
    \/ \E c \in CodecKinds : Construct(1, c, PyNone)
    \/ \E e \in EncoderKinds, v \in BOOLEAN : SetAvailable(e, v)
    \/ GetEncoder(1)

InitEncoder == InitImported({PyNone})

SpecEncoder == InitEncoder /\ [][NextEncoder]_vars

\* equality and ordering of descriptors
NextCompare ==
    \/ \E i \in Operands, c \in CodecKinds : \E m \in MimeArgs(c) : Construct(i, c, m)
    \/ \E i \in Operands, v \in BitRates : SetBitRate(i, v)
    \/ \E i, j \in Operands : Compare(i, j)

InitCompare == InitImported({PyNone})

SpecCompare == InitCompare /\ [][NextCompare]_vars

\* serialization
NextJson ==
    \/ \E c \in CodecKinds : \E m \in MimeArgs(c) : Construct(1, c, m)
    \/ \E v \in BitRates : SetBitRate(1, v)
    \/ \E v \in BOOLEAN : SetEnabled(1, PyBool(v))
    \/ ToJson(1)

InitJson == InitImported({PyNone})

SpecJson == InitJson /\ [][NextJson]_vars

\* MIME matching
NextAccepts == \E c \in CodecKinds : Accepts(c)

InitAccepts == InitImported(MimeStrings(MaxMimeParts))

SpecAccepts == InitAccepts /\ [][NextAccepts]_vars

\* construction of L16 descriptors from MIME strings
NextL16 == NewL16 \/ RoundTrip

InitL16 == InitImported(L16Strings(MaxParts))

SpecL16 == InitL16 /\ [][NextL16]_vars

Spec == SpecKinds

-----------------------------------------------------------------------------
(* The encoder resolver.                                                   *)

\* C1: reading `encoder` returns an instance of the first candidate, in the
\* declared ENCODERS order, whose AVAILABLE flag is true at that call, and
\* None exactly when no candidate is available; nothing is cached.
C1_EncoderIsFirstAvailable ==
    ret.op = "encoder" =>
        LET encs == ENCODERS(objs[ret.args[1]].cls)
            live == {k \in 1..Len(encs) : AVAILABLE[encs[k]]}
        IN  /\ (ret.value = PyNone) <=> (live = {})
            /\ \A k \in live :
                   (\A q \in live : k <= q) => ret.value.t = encs[k]

\* the preferred encoder is gone, the fallback is there, and it is returned
C1_Witness ==
    /\ ret.op = "encoder"
    /\ LET encs == ENCODERS(objs[ret.args[1]].cls)
       IN  /\ ~AVAILABLE[encs[1]]
           /\ AVAILABLE[encs[2]]
           /\ ret.value.t = encs[2]

-----------------------------------------------------------------------------
(* MIME matching.                                                          *)

-----------------------------------------------------------------------------
(* Equality and ordering.                                                  *)

\* the parameters of a kind, as the claims name them
ParamNames(cls) ==
    IF cls \in {"Mp3Codec", "AacCodec", "OggCodec", "OpusCodec"} THEN {"bit_rate"}
    ELSE IF cls = "L16Codec" THEN {"sample_rate", "channels"}
    ELSE {}

SameParams(a, b) ==
    /\ a.cls = b.cls
    /\ \A n \in ParamNames(a.cls) : a.dict[n] = b.dict[n]

\* C3: a == b iff a and b are of the same kind and have identical
\* parameter values; equality is reflexive and symmetric.
C3_EqIffSameKindAndParams ==
    ret.op = "compare" =>
        LET a == objs[ret.args[1]]
            b == objs[ret.args[2]]
        IN  /\ ret.value.eq <=> SameParams(a, b)
            /\ Eq(a, a)
            /\ Eq(b, a) <=> ret.value.eq

\* two MP3 descriptors of bit rate 192 in different slots, with different
\* mime_type, compare equal
C3_Witness ==
    /\ ret.op = "compare"
    /\ ret.args = <<1, 2>>
    /\ objs[1].cls = "Mp3Codec" /\ objs[2].cls = "Mp3Codec"
    /\ objs[1].dict.bit_rate = PyInt(192) /\ objs[2].dict.bit_rate = PyInt(192)
    /\ objs[1].dict.mime_type # objs[2].dict.mime_type
    /\ ret.value.eq

\* C4: there is no pair of descriptors a, b, of any kind, for which a == b
\* and a > b both hold.
C4_EqExcludesGt ==
    ret.op = "compare" => ~(ret.value.eq /\ ret.value.gt)

\* C5: two descriptors of different kinds are never ordered: none of
\* a > b, a < b, a >= b, a <= b is true (b > a, b < a are the same
\* statement with the operands exchanged).
C5_DifferentKindsUnordered ==
    (ret.op = "compare" /\ objs[ret.args[1]].cls # objs[ret.args[2]].cls) =>
        /\ ~ret.value.gt
        /\ ~ret.value.lt
        /\ ~ret.value.ge
        /\ ~ret.value.le

-----------------------------------------------------------------------------
(* L16.                                                                    *)

\* the MIME string parses into an integer sample rate and a channel digit
L16Parses(mime_string) ==
    /\ Truthy(mime_string)
    /\ re_match(mime_string.s).matched
    /\ IntParses(re_match(mime_string.s).sample_rate)

\* C6: constructing an L16 descriptor never raises; when the string cannot
\* be parsed the descriptor has mime_type "audio/L16", sample_rate None,
\* channels None and specific_mime_type "audio/L16".
C6_L16NeverRaises ==
    ret.op = "L16Codec" =>
        /\ ret.exc = ""
        /\ ~L16Parses(arg) =>
               /\ objs[1].dict.mime_type = PyStr(<<"a","u","d","i","o","/","L","1","6">>)  \* audio/L16
               /\ objs[1].dict.sample_rate = PyNone
               /\ objs[1].dict.channels = PyNone
               /\ specific_mime_type(objs[1]) = PyStr(<<"a","u","d","i","o","/","L","1","6">>)  \* audio/L16

\* C7: for every L16 descriptor d constructed from a MIME string the
\* pattern matches, constructing a descriptor from d.specific_mime_type
\* yields the same sample_rate and channels.
C7_L16RoundTrip ==
    (ret.op = "roundtrip" /\ Truthy(arg) /\ re_match(arg.s).matched) =>
        /\ ret.exc = ""
        /\ objs[2].dict.sample_rate = objs[1].dict.sample_rate
        /\ objs[2].dict.channels = objs[1].dict.channels

-----------------------------------------------------------------------------
(* The kind-level enabled flag.                                            *)

\* C8: every descriptor of a kind K reads the value most recently assigned
\* to enabled through a descriptor of kind K, or True if none was; an
\* assignment through kind K leaves every other kind's value as it was.
C8_EnabledIsPerKind ==
    /\ \A k \in CodecKinds : enabled_get(k, cls_ENABLED) = assigned[k]
    /\ ret.op = "enabled" => ret.value = assigned[objs[ret.args[1]].cls]

\* a descriptor in slot 2 reads False, the value assigned through another
\* descriptor of its kind, while another kind still reads True
C8_Witness ==
    /\ ret.op = "enabled"
    /\ ret.args[1] = 2
    /\ ret.value = PyBool(FALSE)
    /\ objs[1].cls = objs[2].cls
    /\ \E k \in CodecKinds : enabled_get(k, cls_ENABLED) = PyBool(TRUE)

-----------------------------------------------------------------------------
(* The registry.                                                           *)

\* C9: after the first load_codecs() call and any number of further calls
\* CODECS is the same bijection: its keys are the seven identifiers, each
\* maps to the one kind whose IDENTIFIER is that key, and neither BaseCodec
\* nor BitRateMixin is a value.
C9_RegistryIsFixedBijection ==
    ret.op # "" =>
        /\ DOMAIN CODECS = {PyStr(<<"m","p","3">>), PyStr(<<"w","a","v">>), PyStr(<<"l","1","6">>),  \* mp3, wav, l16
                            PyStr(<<"a","a","c">>), PyStr(<<"o","g","g">>), PyStr(<<"f","l","a","c">>),  \* aac, ogg, flac
                            PyStr(<<"o","p","u","s">>)}  \* opus
        /\ \A id \in DOMAIN CODECS :
               /\ CODECS[id] \in CodecKinds
               /\ IDENTIFIER(CODECS[id]) = id
        /\ \A id1, id2 \in DOMAIN CODECS : CODECS[id1] = CODECS[id2] => id1 = id2
        /\ \A c \in CodecKinds : \E id \in DOMAIN CODECS : CODECS[id] = c

\* load_codecs() was called again after descriptors had been made
C9_Witness ==
    /\ ret.op = "load_codecs"
    /\ changes >= 2
    /\ Cardinality(DOMAIN CODECS) = 7

-----------------------------------------------------------------------------
(* Serialization.                                                          *)

\* the text specific_mime_type is to give, stated on the attributes
ExpectedMime(self) ==
    IF /\ self.cls = "L16Codec"
       /\ self.dict.sample_rate \notin {PyNone, PyInt(0)}
       /\ self.dict.channels \notin {PyNone, PyInt(0)}
    THEN PyStr(self.dict.mime_type.s \o <<";","r","a","t","e","=">> \o IntChars(self.dict.sample_rate.i)  \* ;rate=
               \o <<";","c","h","a","n","n","e","l","s","=">> \o IntChars(self.dict.channels.i))  \* ;channels=
    ELSE self.dict.mime_type

=============================================================================
